---- MODULE Spec2Model ----
(***************************************************************************)
(* Model of the ms-hack-man bot (src/src/main.rs): the line dispatch loop  *)
(* of main, the Game aggregate it mutates, the field / cell-type decoders  *)
(* and the Display encoders of the two responses.                          *)
(*                                                                         *)
(* Text is modelled as a sequence of one-character strings, so that        *)
(* splitting, slicing, integer parsing and formatting are computed the way *)
(* the program computes them.                                              *)
(***************************************************************************)
EXTENDS Integers, Sequences, FiniteSets, TLC

VARIABLES
  pc,        \* position of the process: "read", "dispatch", "panicked",
             \* or "call" / "print" / "done" when one function is exercised
  stdin,     \* "open" or "eof": what the next read_line will see
  input,     \* main's local `input` (after pop), or the &str argument
  stdout,    \* lines written by println!
  game,      \* main's `game` : settings, round, field, players
  log,       \* history: the lines read from stdin so far, in order
  ret        \* value returned by the function under exercise

vars == <<pc, stdin, input, stdout, game, log, ret>>

(***************************************************************************)
(* Bounds of the model.                                                    *)
(***************************************************************************)
\* usize is modelled with a narrow range; checked arithmetic overflows above it
UsizeMax == 63
\* longest cell-type token enumerated for parse_cell_type
MaxTokenLen == 3
\* most cells in an enumerated flat field string
MaxCells == 5
\* most lines read from stdin in one run
MaxLines == 3

(***************************************************************************)
(* Text helpers (std::str / String).                                       *)
(***************************************************************************)
NL == "\n"

\* String::pop : removes the last character, if any
Pop(s) == IF Len(s) = 0 THEN s ELSE SubSeq(s, 1, Len(s) - 1)

\* position of the first occurrence of character c in s, 0 when absent
RECURSIVE FindFrom(_, _, _)
FindFrom(s, c, i) ==
  IF i > Len(s) THEN 0
  ELSE IF s[i] = c THEN i
  ELSE FindFrom(s, c, i + 1)

\* str::split(c) collected: always at least one piece, empty pieces kept
RECURSIVE Split(_, _)
Split(s, c) ==
  LET i == FindFrom(s, c, 1)
  IN  IF i = 0 THEN <<s>>
      ELSE <<SubSeq(s, 1, i - 1)>> \o Split(SubSeq(s, i + 1, Len(s)), c)

\* pieces joined by a separator character (used to build the inputs)
RECURSIVE Join(_, _)
Join(ws, c) ==
  IF Len(ws) = 0 THEN <<>>
  ELSE IF Len(ws) = 1 THEN ws[1]
  ELSE ws[1] \o <<c>> \o Join(Tail(ws), c)

Digit == [c \in {"0", "1", "2", "3", "4", "5", "6", "7", "8", "9"} |->
            CASE c = "0" -> 0 [] c = "1" -> 1 [] c = "2" -> 2 [] c = "3" -> 3
              [] c = "4" -> 4 [] c = "5" -> 5 [] c = "6" -> 6 [] c = "7" -> 7
              [] c = "8" -> 8 [] c = "9" -> 9]

DigitChar == <<"0", "1", "2", "3", "4", "5", "6", "7", "8", "9">>

(***************************************************************************)
(* Results: Ok(v) / Err of a parse, and Panic for an unwinding function.   *)
(***************************************************************************)
Ok(v) == [ok |-> TRUE, val |-> v]
Err == [ok |-> FALSE]
Panic == [tag |-> "panic"]
IsPanic(v) == v = Panic

\* checked accumulation of decimal digits, most significant first
RECURSIVE ParseDigits(_, _, _)
ParseDigits(s, i, acc) ==
  IF i > Len(s) THEN Ok(acc)
  ELSE IF s[i] \notin DOMAIN Digit THEN Err
  ELSE IF acc * 10 + Digit[s[i]] > UsizeMax THEN Err
  ELSE ParseDigits(s, i + 1, acc * 10 + Digit[s[i]])

\* str::parse::<usize>() : optional leading '+', then one or more digits
ParseUsize(s) ==
  IF Len(s) = 0 THEN Err
  ELSE IF s[1] \in {"+", "-"} /\ Len(s) = 1 THEN Err
  ELSE IF s[1] = "+" THEN ParseDigits(s, 2, 0)
  ELSE ParseDigits(s, 1, 0)

\* Display of a usize: decimal digits without sign or padding
RECURSIVE FmtUsize(_)
FmtUsize(n) ==
  IF n < 10 THEN <<DigitChar[n + 1]>>
  ELSE FmtUsize(n \div 10) \o <<DigitChar[(n % 10) + 1]>>

(***************************************************************************)
(* Cell-type grammar.                                                      *)
(***************************************************************************)
Nothing == [tag |-> "Nothing"]
Inaccessible == [tag |-> "Inaccessible"]
Player(n) == [tag |-> "Player", id |-> n]
BugSpawnPoint(n) == [tag |-> "BugSpawnPoint", rounds_before_spawn |-> n]
GateLeft == [tag |-> "GateLeft"]
GateRight == [tag |-> "GateRight"]
Bug(n) == [tag |-> "Bug", ai_type |-> n]
Mine(n) == [tag |-> "Mine", rounds_before_explode |-> n]
PickUpMine == [tag |-> "PickUpMine"]
CodeSnippet == [tag |-> "CodeSnippet"]

\* mutant: the slice keeps the classification character
Suffix_Whole(c) == ParseUsize(SubSeq(c, 1, Len(c)))

\* c[1..].parse() : the suffix after the classification character
Suffix(c) == ParseUsize(SubSeq(c, 2, Len(c)))

\* mutant: a token starting with `B` never reaches the Mine arm
parse_cell_type_NoMine(cell_type) ==
  CASE cell_type = <<".">> -> Nothing
    [] cell_type = <<"x">> -> Inaccessible
    [] cell_type = <<"S">> -> BugSpawnPoint(0)
    [] cell_type = <<"G", "l">> -> GateLeft
    [] cell_type = <<"G", "r">> -> GateRight
    [] cell_type = <<"B">> -> PickUpMine
    [] cell_type = <<"C">> -> CodeSnippet
    [] OTHER ->
         IF Len(cell_type) = 0 THEN Panic
         ELSE CASE cell_type[1] = "P" ->
                     IF Suffix(cell_type).ok THEN Player(Suffix(cell_type).val) ELSE Panic
                [] cell_type[1] = "S" ->
                     IF Suffix(cell_type).ok THEN BugSpawnPoint(Suffix(cell_type).val) ELSE Panic
                [] cell_type[1] = "E" ->
                     IF Suffix(cell_type).ok THEN Bug(Suffix(cell_type).val) ELSE Panic
                [] OTHER -> Panic

parse_cell_type(cell_type) ==
  CASE cell_type = <<".">> -> Nothing
    [] cell_type = <<"x">> -> Inaccessible
    [] cell_type = <<"S">> -> BugSpawnPoint(0)
    [] cell_type = <<"G", "l">> -> GateLeft
    [] cell_type = <<"G", "r">> -> GateRight
    [] cell_type = <<"B">> -> PickUpMine
    [] cell_type = <<"C">> -> CodeSnippet
    [] OTHER ->
         IF Len(cell_type) = 0 THEN Panic   \* chars().nth(0).unwrap()
         ELSE CASE cell_type[1] = "P" ->
                     IF Suffix(cell_type).ok THEN Player(Suffix(cell_type).val) ELSE Panic
                [] cell_type[1] = "S" ->
                     IF Suffix(cell_type).ok THEN BugSpawnPoint(Suffix(cell_type).val) ELSE Panic
                [] cell_type[1] = "E" ->
                     IF Suffix(cell_type).ok THEN Bug(Suffix(cell_type).val) ELSE Panic
                [] cell_type[1] = "B" ->
                     IF Suffix(cell_type).ok THEN Mine(Suffix(cell_type).val) ELSE Panic
                [] OTHER -> Panic           \* panic!("invalid cell type!")

(***************************************************************************)
(* Cells and the field decoder.                                            *)
(***************************************************************************)
\* a mapped iterator unwinds out of collect() when one of the calls panics
AnyPanic(rs) == \E i \in 1..Len(rs) : IsPanic(rs[i])

\* .map(|cell_type| parse_cell_type(cell_type)) over the pieces, in order
RECURSIVE MapCellTypes(_)
MapCellTypes(pieces) ==
  IF Len(pieces) = 0 THEN <<>>
  ELSE <<parse_cell_type(Head(pieces))>> \o MapCellTypes(Tail(pieces))

parse_cell(cell) ==
  LET types == MapCellTypes(Split(cell, ";"))
  IN  IF AnyPanic(types) THEN Panic ELSE [types |-> types]

\* .map(|cell| parse_cell(cell)) over the pieces, in order
RECURSIVE MapCells(_)
MapCells(pieces) ==
  IF Len(pieces) = 0 THEN <<>>
  ELSE <<parse_cell(Head(pieces))>> \o MapCells(Tail(pieces))

has_code_snippet(cell) ==
  \E i \in 1..Len(cell.types) : cell.types[i] = CodeSnippet

player_id(t) == IF t.tag = "Player" THEN Ok(t.id) ELSE Err

RECURSIVE FilterIds(_)
FilterIds(types) ==
  IF Len(types) = 0 THEN <<>>
  ELSE LET r == player_id(Head(types))
       IN  (IF r.ok THEN <<r.val>> ELSE <<>>) \o FilterIds(Tail(types))

player_ids(cell) == FilterIds(cell.types)

\* mutant: (column, row) instead of (row, column)
index_to_coords_Swapped(s, index) ==
  IF s.field_width = 0 THEN Panic
  ELSE <<index % s.field_width, index \div s.field_width>>

\* Settings::index_to_coords : the division panics when field_width is 0
index_to_coords(s, index) ==
  IF s.field_width = 0 THEN Panic
  ELSE <<index \div s.field_width, index % s.field_width>>

\* the inner loop of parse_field over the player ids of one cell; acc is the
\* record of the loop's accumulators, or Panic once a call has panicked
RECURSIVE ScanIds(_, _, _, _)
ScanIds(s, ids, index, acc) ==
  IF Len(ids) = 0 \/ IsPanic(acc) THEN acc
  ELSE IF s.field_width = 0 THEN Panic
  ELSE ScanIds(s, Tail(ids), index,
               IF Head(ids) = s.my_bot_id
               THEN [acc EXCEPT !.me = index_to_coords(s, index)]
               ELSE [acc EXCEPT !.others = Append(@, index_to_coords(s, index))])

\* the loop of parse_field over the enumerated cells (index is 0-based)
RECURSIVE ScanCells(_, _, _, _)
ScanCells(s, cells, index, acc) ==
  IF index >= Len(cells) \/ IsPanic(acc) THEN acc
  ELSE LET cell == cells[index + 1]
           a1 == IF has_code_snippet(cell)
                 THEN IF s.field_width = 0 THEN Panic
                      ELSE [acc EXCEPT !.snippets = Append(@, index_to_coords(s, index))]
                 ELSE acc
       IN  ScanCells(s, cells, index + 1, ScanIds(s, player_ids(cell), index, a1))

\* slice::chunks(n) collected: panics on n = 0, the last chunk may be shorter
RECURSIVE chunks(_, _)
chunks(xs, n) ==
  IF n = 0 THEN Panic
  ELSE IF Len(xs) = 0 THEN <<>>
  ELSE IF Len(xs) <= n THEN <<xs>>
  ELSE <<SubSeq(xs, 1, n)>> \o chunks(SubSeq(xs, n + 1, Len(xs)), n)

\* mutant: a width of 0 yields one row instead of a panic
parse_field_NoZeroCheck(s, f) ==
  LET parsed_cells == MapCells(Split(f, ","))
  IN  IF AnyPanic(parsed_cells) THEN Panic
      ELSE LET acc == ScanCells(s, parsed_cells, 0,
                                [snippets |-> <<>>, me |-> <<0, 0>>, others |-> <<>>])
           IN  IF IsPanic(acc) THEN Panic
               ELSE [cells |-> IF s.field_width = 0 THEN <<parsed_cells>>
                               ELSE chunks(parsed_cells, s.field_width),
                     snippets |-> acc.snippets, me |-> acc.me, others |-> acc.others]

parse_field(s, f) ==
  LET parsed_cells == MapCells(Split(f, ","))
  IN  IF AnyPanic(parsed_cells) THEN Panic
      ELSE LET acc == ScanCells(s, parsed_cells, 0,
                                [snippets |-> <<>>, me |-> <<0, 0>>, others |-> <<>>])
           IN  IF IsPanic(acc) THEN Panic
               ELSE IF s.field_width = 0 THEN Panic    \* chunks(0) panics
               ELSE [cells |-> chunks(parsed_cells, s.field_width),
                     snippets |-> acc.snippets, me |-> acc.me, others |-> acc.others]

(***************************************************************************)
(* The literal strings of the program.                                     *)
(***************************************************************************)
w_settings == <<"s", "e", "t", "t", "i", "n", "g", "s">>
w_update == <<"u", "p", "d", "a", "t", "e">>
w_action == <<"a", "c", "t", "i", "o", "n">>
w_timebank == <<"t", "i", "m", "e", "b", "a", "n", "k">>
w_time_per_move == <<"t", "i", "m", "e", "_", "p", "e", "r", "_", "m", "o", "v", "e">>
w_player_names == <<"p", "l", "a", "y", "e", "r", "_", "n", "a", "m", "e", "s">>
w_your_bot == <<"y", "o", "u", "r", "_", "b", "o", "t">>
w_your_botid == <<"y", "o", "u", "r", "_", "b", "o", "t", "i", "d">>
w_field_width == <<"f", "i", "e", "l", "d", "_", "w", "i", "d", "t", "h">>
w_field_height == <<"f", "i", "e", "l", "d", "_", "h", "e", "i", "g", "h", "t">>
w_max_rounds == <<"m", "a", "x", "_", "r", "o", "u", "n", "d", "s">>
w_game == <<"g", "a", "m", "e">>
w_round == <<"r", "o", "u", "n", "d">>
w_field == <<"f", "i", "e", "l", "d">>
w_snippets == <<"s", "n", "i", "p", "p", "e", "t", "s">>
w_bombs == <<"b", "o", "m", "b", "s">>
w_character == <<"c", "h", "a", "r", "a", "c", "t", "e", "r">>
w_move == <<"m", "o", "v", "e">>
w_bixie == <<"b", "i", "x", "i", "e">>
w_bixiette == <<"b", "i", "x", "i", "e", "t", "t", "e">>
w_up == <<"u", "p">>
w_down == <<"d", "o", "w", "n">>
w_left == <<"l", "e", "f", "t">>
w_right == <<"r", "i", "g", "h", "t">>
w_pass == <<"p", "a", "s", "s">>
w_drop_bomb == <<";", "d", "r", "o", "p", "_", "b", "o", "m", "b", " ">>

(***************************************************************************)
(* Settings, Player, Field and Game.                                       *)
(***************************************************************************)
DefaultSettings ==
  [timebank |-> 0, time_per_move |-> 0, player_names |-> <<>>, my_bot |-> <<>>,
   my_bot_id |-> 0, field_width |-> 0, field_height |-> 0, max_rounds |-> 0]

DefaultPlayer == [snippets |-> 0, bombs |-> 0]

DefaultField == [cells |-> <<>>, snippets |-> <<>>, me |-> <<0, 0>>, others |-> <<>>]

\* the players map is a function from the identifiers it holds to Players
EmptyMap == [pid \in {} |-> DefaultPlayer]

DefaultGame ==
  [settings |-> DefaultSettings, round |-> 0, field |-> DefaultField,
   players |-> EmptyMap]

\* HashMap::insert : adds or overwrites the entry of k
Insert(m, k, v) == [x \in DOMAIN m \cup {k} |-> IF x = k THEN v ELSE m[x]]

\* mutant: the entry is reset to the default even when it exists
EntryOrDefault_Overwrite(m, k) == Insert(m, k, DefaultPlayer)

\* HashMap::entry(k).or_insert_with(Default::default)
EntryOrDefault(m, k) == IF k \in DOMAIN m THEN m ELSE Insert(m, k, DefaultPlayer)

Settings_update(s, key, value) ==
  LET n == ParseUsize(value)      \* value.parse(), unwrapped in the numeric arms
  IN  CASE key = w_timebank ->
             IF n.ok THEN [s EXCEPT !.timebank = n.val] ELSE Panic
        [] key = w_time_per_move ->
             IF n.ok THEN [s EXCEPT !.time_per_move = n.val] ELSE Panic
        [] key = w_player_names -> [s EXCEPT !.player_names = Split(value, ",")]
        [] key = w_your_bot -> [s EXCEPT !.my_bot = value]
        [] key = w_your_botid ->
             IF n.ok THEN [s EXCEPT !.my_bot_id = n.val] ELSE Panic
        [] key = w_field_width ->
             IF n.ok THEN [s EXCEPT !.field_width = n.val] ELSE Panic
        [] key = w_field_height ->
             IF n.ok THEN [s EXCEPT !.field_height = n.val] ELSE Panic
        [] key = w_max_rounds ->
             IF n.ok THEN [s EXCEPT !.max_rounds = n.val] ELSE Panic
        [] OTHER -> s

\* mutant: the two arms assign each other's field
Player_update_Swapped(p, key, value) ==
  CASE key = w_snippets -> [p EXCEPT !.bombs = value]
    [] key = w_bombs -> [p EXCEPT !.snippets = value]
    [] OTHER -> p

Player_update(p, key, value) ==
  CASE key = w_snippets -> [p EXCEPT !.snippets = value]
    [] key = w_bombs -> [p EXCEPT !.bombs = value]
    [] OTHER -> p

\* outcome of a method of Game: the game as the call left it, and whether it
\* returned or unwound with a panic
Returned(g) == [panicked |-> FALSE, game |-> g]
Unwound(g) == [panicked |-> TRUE, game |-> g]

\* mutant: or_insert semantics, an existing entry is kept
RECURSIVE InsertDefaults_Keep(_, _)
InsertDefaults_Keep(m, names) ==
  IF Len(names) = 0 THEN m
  ELSE InsertDefaults_Keep(EntryOrDefault(m, Head(names)), Tail(names))

\* the for loop of update_settings: a default Player for every listed name
RECURSIVE InsertDefaults(_, _)
InsertDefaults(m, names) ==
  IF Len(names) = 0 THEN m
  ELSE InsertDefaults(Insert(m, Head(names), DefaultPlayer), Tail(names))

\* mutant: the player map is rebuilt from the listed names alone
update_settings_Rebuild(g, key, value) ==
  LET s == Settings_update(g.settings, key, value)
  IN  IF IsPanic(s) THEN Unwound(g)
      ELSE Returned([g EXCEPT !.settings = s,
                              !.players = InsertDefaults(EmptyMap, s.player_names)])

update_settings(g, key, value) ==
  LET s == Settings_update(g.settings, key, value)
  IN  IF IsPanic(s) THEN Unwound(g)
      ELSE Returned([g EXCEPT !.settings = s,
                              !.players = InsertDefaults(g.players, s.player_names)])

\* mutant: the field arm extends the previous derived indices instead of
\* replacing them
Game_update_Accumulate(g, update_type, key, value) ==
  IF update_type = w_game
  THEN CASE key = w_round ->
              LET r == ParseUsize(value)
              IN  IF r.ok THEN Returned([g EXCEPT !.round = r.val]) ELSE Unwound(g)
         [] key = w_field ->
              LET f == parse_field(g.settings, value)
              IN  IF IsPanic(f) THEN Unwound(g)
                  ELSE Returned([g EXCEPT !.field =
                         [f EXCEPT !.snippets = g.field.snippets \o @,
                                   !.others = g.field.others \o @]])
         [] OTHER -> Returned(g)
  ELSE LET pid == update_type
           g1 == [g EXCEPT !.players = EntryOrDefault(g.players, pid)]
           r == ParseUsize(value)
       IN  IF r.ok
           THEN Returned([g1 EXCEPT !.players[pid] = Player_update(@, key, r.val)])
           ELSE Unwound(g1)

Game_update(g, update_type, key, value) ==
  IF update_type = w_game
  THEN CASE key = w_round ->
              LET r == ParseUsize(value)
              IN  IF r.ok THEN Returned([g EXCEPT !.round = r.val]) ELSE Unwound(g)
         [] key = w_field ->
              LET f == parse_field(g.settings, value)
              IN  IF IsPanic(f) THEN Unwound(g) ELSE Returned([g EXCEPT !.field = f])
         [] OTHER -> Returned(g)
  ELSE LET pid == update_type
           g1 == [g EXCEPT !.players = EntryOrDefault(g.players, pid)]
           r == ParseUsize(value)
       IN  IF r.ok
           THEN Returned([g1 EXCEPT !.players[pid] = Player_update(@, key, r.val)])
           ELSE Unwound(g1)

(***************************************************************************)
(* Responses: the choices, their Display encodings, and the Basic AI.      *)
(***************************************************************************)
Bixie == [tag |-> "Bixie"]
Bixiette == [tag |-> "Bixiette"]
Directions == {"Up", "Down", "Left", "Right"}
MoveDirection(d) == [tag |-> "Direction", direction |-> d]
DropBomb(d, r) == [tag |-> "DropBomb", direction |-> d, rounds |-> r]
Pass == [tag |-> "Pass"]

fmt_ChooseCharacter(c) ==
  CASE c = Bixie -> w_bixie
    [] c = Bixiette -> w_bixiette

fmt_Direction(d) ==
  CASE d = "Up" -> w_up
    [] d = "Down" -> w_down
    [] d = "Left" -> w_left
    [] d = "Right" -> w_right

\* mutant: the format string of DropBomb lacks the space before the rounds
fmt_Move_NoSpace(m) ==
  CASE m.tag = "Direction" -> fmt_Direction(m.direction)
    [] m.tag = "DropBomb" ->
         fmt_Direction(m.direction) \o Pop(w_drop_bomb) \o FmtUsize(m.rounds)
    [] m.tag = "Pass" -> w_pass

fmt_Move(m) ==
  CASE m.tag = "Direction" -> fmt_Direction(m.direction)
    [] m.tag = "DropBomb" ->
         fmt_Direction(m.direction) \o w_drop_bomb \o FmtUsize(m.rounds)
    [] m.tag = "Pass" -> w_pass

\* "{}" : the Display implementation of the value's type
Display(v) ==
  IF v.tag \in {"Bixie", "Bixiette"} THEN fmt_ChooseCharacter(v) ELSE fmt_Move(v)

\* mutant: a newline inside the format string, so an empty line follows
Println_Blank(out, v) == Append(Append(out, Display(v)), <<>>)

\* println!("{}", v) : one more line on stdout
Println(out, v) == Append(out, Display(v))

\* impl AI for Basic
action_character(time) == Bixie
action_move(g, time) == Pass

(***************************************************************************)
(* The dispatch loop of main.                                              *)
(***************************************************************************)
None == [tag |-> "none"]

\* let commands: Vec<_> = input.split(" ").collect();  (commands[k] of the
\* program is Commands[k + 1])
Commands == Split(input, " ")

\* read_line returns one more line, terminated by its newline; pop drops it
ReadLine(Lines) ==
  /\ pc = "read"
  /\ stdin = "open"
  /\ Len(log) < MaxLines
  /\ \E l \in Lines :
       /\ input' = Pop(l \o <<NL>>)
       /\ log' = Append(log, l)
  /\ pc' = "dispatch"
  /\ UNCHANGED <<stdin, stdout, game, ret>>

\* read_line returns Ok(0) at end of stream: input stays empty, pop drops nothing
ReadEof ==
  /\ pc = "read"
  /\ input' = Pop(<<>>)
  /\ stdin' = "eof"
  /\ pc' = "dispatch"
  /\ UNCHANGED <<stdout, game, log, ret>>

\* "settings" => game.update_settings(commands[1], commands[2])
DoSettings ==
  /\ pc = "dispatch"
  /\ Commands[1] = w_settings
  /\ IF Len(Commands) < 3
     THEN pc' = "panicked" /\ UNCHANGED game      \* index out of bounds
     ELSE LET o == update_settings(game, Commands[2], Commands[3])
          IN  /\ game' = o.game
              /\ pc' = IF o.panicked THEN "panicked" ELSE "read"
  /\ UNCHANGED <<stdin, input, stdout, log, ret>>

\* "update" => game.update(commands[1], commands[2], commands[3])
DoUpdate ==
  /\ pc = "dispatch"
  /\ Commands[1] = w_update
  /\ IF Len(Commands) < 4
     THEN pc' = "panicked" /\ UNCHANGED game      \* index out of bounds
     ELSE LET o == Game_update(game, Commands[2], Commands[3], Commands[4])
          IN  /\ game' = o.game
              /\ pc' = IF o.panicked THEN "panicked" ELSE "read"
  /\ UNCHANGED <<stdin, input, stdout, log, ret>>

\* "action" => match commands[1] { "character" .., "move" .., _ => {} }
DoAction ==
  /\ pc = "dispatch"
  /\ Commands[1] = w_action
  /\ IF Len(Commands) < 2
     THEN pc' = "panicked" /\ UNCHANGED stdout    \* index out of bounds
     ELSE IF Commands[2] \in {w_character, w_move}
     THEN IF Len(Commands) < 3
          THEN pc' = "panicked" /\ UNCHANGED stdout
          ELSE LET time == ParseUsize(Commands[3])
               IN  IF ~time.ok
                   THEN pc' = "panicked" /\ UNCHANGED stdout
                   ELSE /\ stdout' =
                             IF Commands[2] = w_character
                             THEN Println(stdout, action_character(time.val))
                             ELSE Println(stdout, action_move(game, time.val))
                        /\ pc' = "read"
     ELSE pc' = "read" /\ UNCHANGED stdout
  /\ UNCHANGED <<stdin, input, game, log, ret>>

\* _ => {}
DoOther ==
  /\ pc = "dispatch"
  /\ Commands[1] \notin {w_settings, w_update, w_action}
  /\ pc' = "read"
  /\ UNCHANGED <<stdin, input, stdout, game, log, ret>>

InitMain ==
  /\ pc = "read"
  /\ stdin = "open"
  /\ input = <<>>
  /\ stdout = <<>>
  /\ game = DefaultGame
  /\ log = <<>>
  /\ ret = None

(***************************************************************************)
(* Inputs.                                                                 *)
(***************************************************************************)
Line(ws) == Join(ws, " ")
n1 == <<"1">>
n2 == <<"2">>
n3 == <<"3">>
n5 == <<"5">>
n10 == <<"1", "0">>
w_x == <<"x">>
w_foo == <<"f", "o", "o">>
w_bar == <<"b", "a", "r">>

\* lines exercising every arm of the dispatch
DispatchLines ==
  { Line(<<w_settings, w_timebank, n10>>),
    Line(<<w_settings, w_timebank>>),
    Line(<<w_update, w_game, w_round, n3>>),
    Line(<<w_update, w_game, w_round>>),
    Line(<<w_action, w_character, n10>>),
    Line(<<w_action, w_move, n10>>),
    Line(<<w_action, w_move, w_x>>),
    Line(<<w_action, w_character>>),
    Line(<<w_action, w_foo, n10>>),
    Line(<<w_action, w_foo>>),
    Line(<<w_action>>),
    Line(<<w_foo, w_bar>>),
    <<>> }

ReadDispatchLine == ReadLine(DispatchLines)

Init == InitMain

Next == ReadDispatchLine \/ ReadEof \/ DoSettings \/ DoUpdate \/ DoAction \/ DoOther

Spec == Init /\ [][Next]_vars

\* the loop never blocks except in read_line: it keeps taking steps
FairSpec == Init /\ [][Next]_vars /\ WF_vars(Next)

(***************************************************************************)
(* The loop fed with player lines, and with field lines.                   *)
(***************************************************************************)
w_a == <<"a">>
w_b == <<"b">>
w_c == <<"c">>

PlayerLines ==
  { Line(<<w_settings, w_player_names, Join(<<w_a, w_b>>, ",")>>),
    Line(<<w_settings, w_player_names, Join(<<w_a, w_game>>, ",")>>),
    Line(<<w_settings, w_timebank, n10>>),
    Line(<<w_settings, w_foo, n1>>),
    Line(<<w_update, w_a, w_foo, n5>>),
    Line(<<w_update, w_a, w_foo, w_x>>),
    Line(<<w_update, w_a, w_snippets, n5>>),
    Line(<<w_update, w_a, w_bombs, n2>>),
    Line(<<w_update, w_b, w_bombs, n2>>),
    Line(<<w_update, w_game, w_snippets, n5>>),
    Line(<<w_update, w_c, w_snippets, n5>>),
    Line(<<w_action, w_move, n10>>),
    Line(<<w_foo, w_bar>>) }

ReadPlayerLine == ReadLine(PlayerLines)

NextPlayers ==
  ReadPlayerLine \/ ReadEof \/ DoSettings \/ DoUpdate \/ DoAction \/ DoOther

SpecPlayers == Init /\ [][NextPlayers]_vars

c_dot == <<".">>
c_P1C == <<"P", "1", ";", "C">>
c_P0 == <<"P", "0">>
c_Q == <<"Q">>

FieldLines ==
  { Line(<<w_settings, w_field_width, n2>>),
    Line(<<w_settings, w_field_height, n2>>),
    Line(<<w_settings, w_field_height, n1>>),
    Line(<<w_settings, w_your_botid, n1>>),
    Line(<<w_update, w_game, w_field, Join(<<c_dot, c_dot, c_dot, c_dot>>, ",")>>),
    Line(<<w_update, w_game, w_field, Join(<<c_dot, c_dot, c_dot>>, ",")>>),
    Line(<<w_update, w_game, w_field, Join(<<c_dot, c_dot>>, ",")>>),
    Line(<<w_update, w_game, w_field, Join(<<c_P1C, c_P0>>, ",")>>),
    Line(<<w_update, w_game, w_field, c_Q>>),
    Line(<<w_update, w_game, w_round, n3>>),
    Line(<<w_action, w_move, n10>>),
    Line(<<w_foo, w_bar>>) }

ReadFieldLine == ReadLine(FieldLines)

NextField ==
  ReadFieldLine \/ ReadEof \/ DoSettings \/ DoUpdate \/ DoAction \/ DoOther

SpecField == Init /\ [][NextField]_vars

(***************************************************************************)
(* The main loop fed with lines whose values do and do not parse.          *)
(***************************************************************************)
n_plus5 == <<"+", "5">>
c_Pplus3 == <<"P", "+", "3">>

AbortLines ==
  { Line(<<w_settings, w_field_width, n1>>),
    Line(<<w_settings, w_timebank, w_x>>),
    Line(<<w_settings, w_timebank, n_plus5>>),
    Line(<<w_update, w_game, w_round, n3>>),
    Line(<<w_update, w_game, w_round, w_x>>),
    Line(<<w_update, w_a, w_snippets, n5>>),
    Line(<<w_update, w_a, w_snippets, w_x>>),
    Line(<<w_update, w_game, w_field, c_dot>>),
    Line(<<w_update, w_game, w_field, c_Q>>),
    Line(<<w_update, w_game, w_field, c_Pplus3>>),
    Line(<<w_action, w_move, n10>>),
    Line(<<w_action, w_move, w_x>>),
    Line(<<w_action, w_character, w_x>>),
    Line(<<w_foo, w_bar>>) }

ReadAbortLine == ReadLine(AbortLines)

NextAbort ==
  ReadAbortLine \/ ReadEof \/ DoSettings \/ DoUpdate \/ DoAction \/ DoOther

SpecAbort == Init /\ [][NextAbort]_vars

(***************************************************************************)
(* parse_cell_type exercised on every short token.                         *)
(***************************************************************************)
TokenChars ==
  {".", "x", "S", "G", "l", "r", "B", "C", "P", "E", "Q", "+", "-",
   "0", "1", "3", "9"}

Tokens == UNION {[1..n -> TokenChars] : n \in 0..MaxTokenLen}

InitCellType ==
  /\ pc = "call"
  /\ stdin = "open"
  /\ input \in Tokens
  /\ stdout = <<>>
  /\ game = DefaultGame
  /\ log = <<>>
  /\ ret = None

CallParseCellType ==
  /\ pc = "call"
  /\ ret' = parse_cell_type(input)
  /\ pc' = IF IsPanic(parse_cell_type(input)) THEN "panicked" ELSE "done"
  /\ UNCHANGED <<stdin, input, stdout, game, log>>

SpecCellType == InitCellType /\ [][CallParseCellType]_vars

(***************************************************************************)
(* The Display encoders exercised on every choice an AI can return.        *)
(***************************************************************************)
Choices ==
  {Bixie, Bixiette, Pass}
    \cup {MoveDirection(d) : d \in Directions}
    \cup {DropBomb(d, r) : d \in Directions, r \in 0..UsizeMax}

InitEncode ==
  /\ pc = "print"
  /\ stdin = "open"
  /\ input = <<>>
  /\ stdout = <<>>
  /\ game = DefaultGame
  /\ log = <<>>
  /\ ret \in Choices

PrintChoice ==
  /\ pc = "print"
  /\ stdout' = Println(stdout, ret)
  /\ pc' = "done"
  /\ UNCHANGED <<stdin, input, game, log, ret>>

SpecEncode == InitEncode /\ [][PrintChoice]_vars

(***************************************************************************)
(* parse_field exercised on short flat field strings, for each width and   *)
(* bot index.                                                              *)
(***************************************************************************)
MaxWidth == 3

CellStrings ==
  { <<".">>, <<"C">>, <<"P", "0">>, <<"P", "1", ";", "C">>,
    <<"P", "0", ";", "P", "1">>, <<"Q">> }

FieldStrings ==
  { Join(cs, ",") : cs \in UNION {[1..n -> CellStrings] : n \in 1..MaxCells} }

InitParseField ==
  /\ pc = "call"
  /\ stdin = "open"
  /\ input \in FieldStrings
  /\ stdout = <<>>
  /\ \E w \in 0..MaxWidth, b \in 0..1 :
       game = [DefaultGame EXCEPT !.settings.field_width = w,
                                  !.settings.my_bot_id = b]
  /\ log = <<>>
  /\ ret = None

CallParseField ==
  /\ pc = "call"
  /\ ret' = parse_field(game.settings, input)
  /\ pc' = IF IsPanic(parse_field(game.settings, input)) THEN "panicked" ELSE "done"
  /\ UNCHANGED <<stdin, input, stdout, game, log>>

SpecParseField == InitParseField /\ [][CallParseField]_vars

(***************************************************************************)
(* Vocabulary of the properties.                                           *)
(***************************************************************************)
Last(q) == q[Len(q)]

\* a non-empty run of decimal digits
IsDecimal(tok) == Len(tok) > 0 /\ \A i \in 1..Len(tok) : tok[i] \in DOMAIN Digit

\* an `action character <time>` or `action move <time>` line, numeric time
IsActionRequest(line) ==
  LET t == Split(line, " ")
  IN  /\ Len(t) = 3
      /\ t[1] = w_action
      /\ t[2] \in {w_character, w_move}
      /\ IsDecimal(t[3])

\* the sub-verbs of the action requests among the lines, in order
RECURSIVE RequestKinds(_)
RequestKinds(lines) ==
  IF Len(lines) = 0 THEN <<>>
  ELSE (IF IsActionRequest(Head(lines)) THEN <<Split(Head(lines), " ")[2]>> ELSE <<>>)
       \o RequestKinds(Tail(lines))

CharacterWords == {w_bixie, w_bixiette}
MoveWords == {w_up, w_down, w_left, w_right, w_pass}

\* C1: whenever the process is between lines (or has aborted), stdout holds
\* exactly one line per action request read so far, in the order of the
\* requests: a character word for `action character`, a move for `action
\* move`; no other line has written anything.
C1_OneResponsePerRequest ==
  pc \in {"read", "panicked"} =>
    LET kinds == RequestKinds(log)
    IN  /\ Len(stdout) = Len(kinds)
        /\ \A i \in 1..Len(kinds) :
             IF kinds[i] = w_character
             THEN stdout[i] \in CharacterWords
             ELSE Split(stdout[i], ";")[1] \in MoveWords

\* two requests answered in order, around a line that writes nothing
C1_Witness ==
  /\ pc = "read"
  /\ Len(log) = 3
  /\ stdout = <<w_bixie, w_pass>>

\* the lines the dispatcher is said to ignore: unknown verb, unknown action
\* sub-verb, or fewer tokens than the verb requires
Ignorable(line) ==
  LET t == Split(line, " ")
  IN  \/ t[1] \notin {w_settings, w_update, w_action}
      \/ t[1] = w_action /\ Len(t) >= 2 /\ t[2] \notin {w_character, w_move}
      \/ t[1] = w_settings /\ Len(t) < 3
      \/ t[1] = w_update /\ Len(t) < 4
      \/ t[1] = w_action /\ Len(t) < 3

\* C4: dispatching an ignorable line returns to reading (no error), writes
\* nothing and leaves the Game unchanged.
C4_IgnoredLines ==
  [][(pc = "dispatch" /\ Ignorable(input)) =>
       (pc' = "read" /\ stdout' = stdout /\ game' = game)]_vars

\* C5: once the input stream has signalled end-of-stream the process
\* eventually leaves the loop.
C5_StopsAtEof == (stdin = "eof") ~> (pc \notin {"read", "dispatch"})

\* the value of a run of decimal digits
RECURSIVE DecimalValue(_)
DecimalValue(tok) ==
  IF Len(tok) = 0 THEN 0
  ELSE 10 * DecimalValue(Pop(tok)) + Digit[Last(tok)]

\* the decimal numeral of n, without sign or leading zero
IsNumeralOf(tok, n) ==
  /\ IsDecimal(tok)
  /\ Len(tok) = 1 \/ tok[1] # "0"
  /\ DecimalValue(tok) = n

\* the wire words of the four directions
DirectionWord(d) ==
  CASE d = "Up" -> <<"u", "p">>
    [] d = "Down" -> <<"d", "o", "w", "n">>
    [] d = "Left" -> <<"l", "e", "f", "t">>
    [] d = "Right" -> <<"r", "i", "g", "h", "t">>

\* C2: the line printed for a choice is its exact wire form: bixie /
\* bixiette; the direction word of a plain move; `<d>;drop_bomb <r>` with r
\* in decimal for a bomb move (right, 3 gives `right;drop_bomb 3`); `pass`
\* for Pass, and nothing follows a leading `pass`.
C2_WireSyntax ==
  pc = "done" =>
    /\ Len(stdout) = 1
    /\ LET line == stdout[1]
           parts == Split(line, ";")
       IN  /\ ret = Bixie => line = <<"b", "i", "x", "i", "e">>
           /\ ret = Bixiette => line = <<"b", "i", "x", "i", "e", "t", "t", "e">>
           /\ ret = Pass => line = <<"p", "a", "s", "s">>
           /\ ret.tag = "Direction" => line = DirectionWord(ret.direction)
           /\ ret.tag = "DropBomb" =>
                /\ Len(parts) = 2
                /\ parts[1] = DirectionWord(ret.direction)
                /\ LET q == Split(parts[2], " ")
                   IN  /\ Len(q) = 2
                       /\ q[1] = <<"d", "r", "o", "p", "_", "b", "o", "m", "b">>
                       /\ IsNumeralOf(q[2], ret.rounds)
           /\ ret = DropBomb("Right", 3) =>
                line = <<"r", "i", "g", "h", "t", ";", "d", "r", "o", "p", "_",
                         "b", "o", "m", "b", " ", "3">>
           /\ parts[1] = <<"p", "a", "s", "s">> => Len(parts) = 1

\* a bomb move with a two-digit fuse has been printed
C2_Witness ==
  /\ pc = "done"
  /\ ret = DropBomb("Left", 12)
  /\ stdout = << <<"l", "e", "f", "t", ";", "d", "r", "o", "p", "_",
                   "b", "o", "m", "b", " ", "1", "2">> >>

\* C8: every well-formed token decodes to the variant of the grammar table;
\* P<n>, S<n>, E<n> carry n for every n of the integer type, and the bare
\* `S` and `B` are taken by the exact-match rule.
C8_DecodesGrammar ==
  pc \in {"done", "panicked"} =>
    /\ input = <<".">> => ret = Nothing
    /\ input = <<"x">> => ret = Inaccessible
    /\ input = <<"G", "l">> => ret = GateLeft
    /\ input = <<"G", "r">> => ret = GateRight
    /\ input = <<"B">> => ret = PickUpMine
    /\ input = <<"C">> => ret = CodeSnippet
    /\ input = <<"S">> => ret = BugSpawnPoint(0)
    /\ \A n \in 0..UsizeMax :
         LET digits == IF Len(input) = 0 THEN <<>> ELSE Tail(input)
         IN  IsNumeralOf(digits, n) =>
               /\ input[1] = "P" => ret = Player(n)
               /\ input[1] = "S" => ret = BugSpawnPoint(n)
               /\ input[1] = "E" => ret = Bug(n)

\* a two-digit occupant token has been decoded
C8_Witness ==
  /\ pc = "done"
  /\ input = <<"P", "1", "3">>
  /\ ret = Player(13)

ExactTokens ==
  { <<".">>, <<"x">>, <<"S">>, <<"G", "l">>, <<"G", "r">>, <<"B">>, <<"C">> }

\* the tokens C9 places outside the grammar
OutsideGrammar(tok) ==
  \/ Len(tok) = 0
  \/ /\ Len(tok) > 0
     /\ tok \notin ExactTokens
     /\ \/ tok[1] \notin {"P", "S", "E", "B"}           \* unknown leading character
        \/ ~IsDecimal(Tail(tok))                        \* no digits, sign, garbage
        \/ DecimalValue(Tail(tok)) > UsizeMax           \* overflow

\* C9: decoding a token outside the grammar fails.
C9_RejectsMalformed ==
  (pc \in {"done", "panicked"} /\ OutsideGrammar(input)) => ret = Panic

\* number of comma-separated cells of a flat field string
CellCount(f) == Len(Split(f, ","))

\* C6: a flat field whose cell count is not a positive multiple of the width
\* fails to decode.
C6_DimensionMismatch ==
  (/\ pc \in {"done", "panicked"}
   /\ \/ game.settings.field_width = 0
      \/ CellCount(input) % game.settings.field_width # 0)
    => ret = Panic

\* C10: a decoded field has count / width rows of exactly width cells, flat
\* cell k sits at row k / width, column k % width, and each cell lists the
\* decoded facets of its `;`-separated tokens in order.
C10_RowsOfWidth ==
  pc = "done" =>
    LET w == game.settings.field_width
        flat == Split(input, ",")
    IN  /\ Len(ret.cells) = Len(flat) \div w
        /\ \A r \in 1..Len(ret.cells) : Len(ret.cells[r]) = w
        /\ \A k \in 0..(Len(flat) - 1) :
             LET toks == Split(flat[k + 1], ";")
             IN  ret.cells[(k \div w) + 1][(k % w) + 1].types
                   = [i \in 1..Len(toks) |-> parse_cell_type(toks[i])]

\* the last two lines read are `settings player_names L` and then a numeric
\* `update p snippets|bombs n` with p listed in L
StatAfterNames ==
  /\ Len(log) >= 2
  /\ LET s == Split(log[Len(log) - 1], " ")
         u == Split(Last(log), " ")
     IN  /\ Len(s) = 3 /\ s[1] = w_settings /\ s[2] = w_player_names
         /\ Len(u) = 4 /\ u[1] = w_update /\ u[3] \in {w_snippets, w_bombs}
         /\ IsDecimal(u[4]) /\ DecimalValue(u[4]) <= UsizeMax
         /\ \E i \in 1..Len(Split(s[3], ",")) : Split(s[3], ",")[i] = u[2]

\* after those two lines: p holds the named stat = n and the other stat = 0,
\* every other listed name holds a default Player
StatSetOthersDefault ==
  LET names == Split(Split(log[Len(log) - 1], " ")[3], ",")
      u == Split(Last(log), " ")
      p == u[2]
      n == DecimalValue(u[4])
  IN  /\ p \in DOMAIN game.players
      /\ game.players[p] = IF u[3] = w_snippets
                           THEN [snippets |-> n, bombs |-> 0]
                           ELSE [snippets |-> 0, bombs |-> n]
      /\ \A i \in 1..Len(names) :
           names[i] # p =>
             /\ names[i] \in DOMAIN game.players
             /\ game.players[names[i]] = [snippets |-> 0, bombs |-> 0]

\* C3 as stated: for every name p of the list.
C3_StatAfterNames == (pc = "read" /\ StatAfterNames) => StatSetOthersDefault

\* C3, amended: for every name p of the list other than `game`.
C3_StatAfterNamesNotGame ==
  (pc = "read" /\ StatAfterNames /\ Split(Last(log), " ")[2] # w_game)
    => StatSetOthersDefault

\* `settings player_names a,b` then `update a snippets 5` have been applied
C3_Witness ==
  /\ pc = "read"
  /\ StatAfterNames
  /\ DOMAIN game.players = {w_a, w_b}
  /\ game.players[w_a] = [snippets |-> 5, bombs |-> 0]
  /\ game.players[w_b] = [snippets |-> 0, bombs |-> 0]

\* an `update game field <s>` line
IsFieldUpdate(line) ==
  LET t == Split(line, " ")
  IN  Len(t) = 4 /\ t[1] = w_update /\ t[2] = w_game /\ t[3] = w_field

\* C7: once both dimensions have been announced, a field update is accepted
\* only if its cell count is field_width * field_height, and the Field it
\* stores has field_height rows of field_width cells.  (Stated for the state
\* right after the field line, where the Settings are still those in force
\* when it was received.)
C7_FieldMatchesSettings ==
  (/\ pc = "read"
   /\ Len(log) > 0
   /\ IsFieldUpdate(Last(log))
   /\ game.settings.field_width > 0
   /\ game.settings.field_height > 0)
    => LET w == game.settings.field_width
           h == game.settings.field_height
       IN  /\ CellCount(Split(Last(log), " ")[4]) = w * h
           /\ Len(game.field.cells) = h
           /\ \A r \in 1..Len(game.field.cells) : Len(game.field.cells[r]) = w

\* C11: an accepted `update game field s` stores exactly the Field decoded
\* from s under the current Settings, whatever the previous Field was; in
\* particular the same field line applied twice in a row leaves the Field
\* of the first application in place.
C11_FieldReplaced ==
  [][(pc = "dispatch" /\ IsFieldUpdate(input) /\ pc' = "read") =>
       /\ game'.field = parse_field(game.settings, Commands[4])
       /\ (Len(log) >= 2 /\ log[Len(log) - 1] = Last(log)) =>
            game'.field = game.field]_vars

\* the same field line, holding a snippet, has been applied twice in a row
C11_Witness ==
  /\ pc = "read"
  /\ Len(log) = 3
  /\ IsFieldUpdate(log[3])
  /\ log[2] = log[3]
  /\ game.field.snippets = << <<0, 0>> >>

\* the keys Settings::update recognizes
RecognizedKeys ==
  {w_timebank, w_time_per_move, w_player_names, w_your_bot, w_your_botid,
   w_field_width, w_field_height, w_max_rounds}

\* C12: a `settings <key> <value>` line with a key other than player_names
\* leaves the round, the Field, the set of players and every player's counts
\* as they were, and with an unrecognized key it leaves the whole Game as it
\* was.
C12_SettingsFrame ==
  [][(/\ pc = "dispatch"
      /\ Len(Commands) = 3
      /\ Commands[1] = w_settings
      /\ Commands[2] # w_player_names) =>
       /\ game'.round = game.round
       /\ game'.field = game.field
       /\ game'.players = game.players
       /\ Commands[2] \notin RecognizedKeys => game' = game]_vars

\* C13: a player-scope update with a key other than snippets / bombs is
\* ignored whatever its value token: the process goes on reading and every
\* player keeps its counts.
C13_OtherKeyIgnored ==
  [][(/\ pc = "dispatch"
      /\ Len(Commands) = 4
      /\ Commands[1] = w_update
      /\ Commands[2] # w_game
      /\ Commands[3] \notin {w_snippets, w_bombs}) =>
       /\ pc' = "read"
       /\ \A p \in DOMAIN game.players :
            p \in DOMAIN game'.players /\ game'.players[p] = game.players[p]]_vars

\* C14: a `settings player_names n1,...,nk` line leaves a Player with
\* snippets = 0 and bombs = 0 for every listed name, whatever that name held
\* before, and keeps the entry of every name that is not listed.
C14_NamesGetDefaults ==
  [][(/\ pc = "dispatch"
      /\ Len(Commands) = 3
      /\ Commands[1] = w_settings
      /\ Commands[2] = w_player_names) =>
       LET names == Split(Commands[3], ",")
           listed == {names[i] : i \in 1..Len(names)}
       IN  /\ pc' = "read"
           /\ \A p \in listed :
                /\ p \in DOMAIN game'.players
                /\ game'.players[p] = [snippets |-> 0, bombs |-> 0]
           /\ \A q \in DOMAIN game.players \ listed :
                /\ q \in DOMAIN game'.players
                /\ game'.players[q] = game.players[q]]_vars

\* `update c snippets 5`, `update a snippets 5`, `settings player_names a,b`:
\* a is back to the default, b is created, c is kept
C14_Witness ==
  /\ pc = "read"
  /\ log = << Line(<<w_update, w_c, w_snippets, n5>>),
              Line(<<w_update, w_a, w_snippets, n5>>),
              Line(<<w_settings, w_player_names, Join(<<w_a, w_b>>, ",")>>) >>
  /\ DOMAIN game.players = {w_a, w_b, w_c}
  /\ game.players[w_a] = [snippets |-> 0, bombs |-> 0]
  /\ game.players[w_b] = [snippets |-> 0, bombs |-> 0]
  /\ game.players[w_c] = [snippets |-> 5, bombs |-> 0]

\* C15: the set of player identifiers held by the Game only grows: every
\* identifier present before a step is present after it, whatever the line.
C15_PlayersOnlyGrow ==
  [][DOMAIN game.players \subseteq DOMAIN game'.players]_vars

\* c was created by an update, then a names line and another settings line
\* were applied: all three identifiers are held
C15_Witness ==
  /\ pc = "read"
  /\ log = << Line(<<w_update, w_c, w_snippets, n5>>),
              Line(<<w_settings, w_player_names, Join(<<w_a, w_b>>, ",")>>),
              Line(<<w_settings, w_timebank, n10>>) >>
  /\ DOMAIN game.players = {w_a, w_b, w_c}

\* C16: `update pid snippets|bombs n` with pid other than `game` and n a
\* number sets the named stat of pid to n; the other stat of pid is what it
\* was, or 0 when pid was unknown; Settings, round, Field and every other
\* player are unchanged, and the loop goes on to the next line.
C16_StatUpdateFrame ==
  [][(/\ pc = "dispatch"
      /\ Len(Commands) = 4
      /\ Commands[1] = w_update
      /\ Commands[2] # w_game
      /\ Commands[3] \in {w_snippets, w_bombs}
      /\ IsDecimal(Commands[4])
      /\ DecimalValue(Commands[4]) <= UsizeMax) =>
       LET pid == Commands[2]
           n == DecimalValue(Commands[4])
           old == IF pid \in DOMAIN game.players
                  THEN game.players[pid]
                  ELSE [snippets |-> 0, bombs |-> 0]
       IN  /\ pc' = "read"
           /\ DOMAIN game'.players = DOMAIN game.players \cup {pid}
           /\ game'.players[pid] =
                IF Commands[3] = w_snippets
                THEN [snippets |-> n, bombs |-> old.bombs]
                ELSE [snippets |-> old.snippets, bombs |-> n]
           /\ \A q \in DOMAIN game.players \ {pid} :
                game'.players[q] = game.players[q]
           /\ game'.settings = game.settings
           /\ game'.round = game.round
           /\ game'.field = game.field
           /\ stdout' = stdout]_vars

\* a is created by its snippets line and keeps that count when its bombs
\* line arrives; b, created afterwards, leaves a alone
C16_Witness ==
  /\ pc = "read"
  /\ log = << Line(<<w_update, w_a, w_snippets, n5>>),
              Line(<<w_update, w_a, w_bombs, n2>>),
              Line(<<w_update, w_b, w_bombs, n2>>) >>
  /\ game.players[w_a] = [snippets |-> 5, bombs |-> 2]
  /\ game.players[w_b] = [snippets |-> 0, bombs |-> 2]
  /\ game.settings = DefaultSettings

\* the (row, column) pairs of the decoded grid held in ret, 0-based
GridCoords ==
  { rc \in (0..MaxCells) \X (0..MaxWidth) :
      /\ rc[1] < Len(ret.cells)
      /\ rc[2] < Len(ret.cells[rc[1] + 1]) }

\* the facets of the decoded cell at (row, column)
FacetsAt(rc) == ret.cells[rc[1] + 1][rc[2] + 1].types

\* flat index of (row, column) under the width in force
FlatIndex(rc) == rc[1] * game.settings.field_width + rc[2]

\* number of positions of seq that hold x
RECURSIVE Occurrences(_, _)
Occurrences(seq, x) ==
  IF Len(seq) = 0 THEN 0
  ELSE (IF Head(seq) = x THEN 1 ELSE 0) + Occurrences(Tail(seq), x)

\* number of Occupant facets of a cell whose index differs from the bot's
RECURSIVE OtherOccupants(_)
OtherOccupants(types) ==
  IF Len(types) = 0 THEN 0
  ELSE (IF Head(types).tag = "Player" /\ Head(types).id # game.settings.my_bot_id
        THEN 1 ELSE 0) + OtherOccupants(Tail(types))

\* C17: for a field that decodes, `snippets` lists in flat-index order, once
\* per cell, exactly the (row, column) of the cells with a CodeSnippet facet;
\* `others` lists in flat-index order one (row, column) per Occupant facet
\* whose index differs from the bot's own; and when some cell holds an
\* Occupant facet with the bot's own index, `me` is the (row, column) of such
\* a cell; (row, column) being (index / width, index % width).
C17_DerivedIndices ==
  pc = "done" =>
    LET mine == [tag |-> "Player", id |-> game.settings.my_bot_id]
        holds(rc, t) == \E i \in 1..Len(FacetsAt(rc)) : FacetsAt(rc)[i] = t
    IN  /\ \A i \in 1..Len(ret.snippets) : ret.snippets[i] \in GridCoords
        /\ \A i, j \in 1..Len(ret.snippets) :
             i < j => FlatIndex(ret.snippets[i]) < FlatIndex(ret.snippets[j])
        /\ {ret.snippets[i] : i \in 1..Len(ret.snippets)}
             = {rc \in GridCoords : holds(rc, CodeSnippet)}
        /\ \A i \in 1..Len(ret.others) : ret.others[i] \in GridCoords
        /\ \A i, j \in 1..Len(ret.others) :
             i < j => FlatIndex(ret.others[i]) <= FlatIndex(ret.others[j])
        /\ \A rc \in GridCoords :
             Occurrences(ret.others, rc) = OtherOccupants(FacetsAt(rc))
        /\ (\E rc \in GridCoords : holds(rc, mine)) =>
             (ret.me \in GridCoords /\ holds(ret.me, mine))

\* `.,C,P1;C,P0;P1` at width 2 for bot 1: snippets at (0,1) and (1,0), the
\* bot at (1,1) sharing its cell with bot 0
C17_Witness ==
  /\ pc = "done"
  /\ game.settings.field_width = 2
  /\ game.settings.my_bot_id = 1
  /\ input = Join(<< <<".">>, <<"C">>, <<"P", "1", ";", "C">>,
                     <<"P", "0", ";", "P", "1">> >>, ",")
  /\ ret.snippets = << <<0, 1>>, <<1, 0>> >>
  /\ ret.me = <<1, 1>>
  /\ ret.others = << <<1, 1>> >>

\* a token the integer type's parser accepts: decimal digits, optionally
\* after a `+`, within the integer type
IsNumber(tok) ==
  LET digits == IF Len(tok) > 0 /\ tok[1] = "+" THEN Tail(tok) ELSE tok
  IN  IsDecimal(digits) /\ DecimalValue(digits) <= UsizeMax

NumericKeys ==
  {w_timebank, w_time_per_move, w_your_botid, w_field_width, w_field_height,
   w_max_rounds}

\* some cell token of the flat field string f is outside the grammar
HasMalformedToken(f) ==
  LET flat == Split(f, ",")
  IN  \E k \in 1..Len(flat) :
        LET toks == Split(flat[k], ";")
        IN  \E i \in 1..Len(toks) : OutsideGrammar(toks[i])

\* a line one of whose values fails to parse as a number, or whose field
\* string holds a malformed cell token
IsParseFailure(line) ==
  LET t == Split(line, " ")
  IN  \/ Len(t) = 3 /\ t[1] = w_settings /\ t[2] \in NumericKeys /\ ~IsNumber(t[3])
      \/ Len(t) = 4 /\ t[1] = w_update /\ t[2] = w_game /\ t[3] = w_round
                    /\ ~IsNumber(t[4])
      \/ Len(t) = 4 /\ t[1] = w_update /\ t[2] # w_game
                    /\ t[3] \in {w_snippets, w_bombs} /\ ~IsNumber(t[4])
      \/ Len(t) = 3 /\ t[1] = w_action /\ t[2] \in {w_character, w_move}
                    /\ ~IsNumber(t[3])
      \/ IsFieldUpdate(line) /\ HasMalformedToken(t[4])

\* C18: the aborted state is terminal (no step leaves it), and a line with a
\* value that fails to parse or with a malformed cell token takes the
\* process there without a response and without replacing round, Field or
\* any Settings value.
C18_ParseFailureFatal ==
  [][/\ pc # "panicked"
     /\ (pc = "dispatch" /\ IsParseFailure(input)) =>
          /\ pc' = "panicked"
          /\ stdout' = stdout
          /\ game'.settings = game.settings
          /\ game'.round = game.round
          /\ game'.field = game.field]_vars

\* C19 as stated: no token decodes to the Mine variant, and every token
\* starting with `B` that decodes at all decodes to PickUpMine.
C19_MineUnreachable ==
  pc \in {"done", "panicked"} =>
    /\ ret.tag # "Mine"
    /\ (Len(input) > 0 /\ input[1] = "B" /\ ret # Panic) => ret = PickUpMine

\* C19 amended: the bare token `B` is taken by the exact-match set and
\* decodes to PickUpMine, and nothing else does; a `B` followed by the
\* numeral of n reaches the prefix rule and decodes to Mine with n rounds
\* before exploding; only tokens of a `B` and a suffix decode to Mine.
C19_MineByPrefix ==
  pc \in {"done", "panicked"} =>
    /\ input = <<"B">> <=> ret = PickUpMine
    /\ \A n \in 0..UsizeMax :
         (Len(input) > 0 /\ input[1] = "B" /\ IsNumeralOf(Tail(input), n)) =>
           ret = Mine(n)
    /\ ret.tag = "Mine" => (Len(input) >= 2 /\ input[1] = "B")

\* `B3` has been decoded to a Mine exploding in 3 rounds
C19_Witness ==
  /\ pc = "done"
  /\ input = <<"B", "3">>
  /\ ret = Mine(3)

\* a `settings field_width n` line with n positive
IsPositiveWidth(line) ==
  LET t == Split(line, " ")
  IN  /\ Len(t) = 3 /\ t[1] = w_settings /\ t[2] = w_field_width
      /\ IsDecimal(t[3]) /\ DecimalValue(t[3]) > 0

\* C20: a field update dispatched while field_width is 0 aborts the process
\* and stores nothing; hence whenever a non-aborted state holds a non-empty
\* Field, a positive `settings field_width` line was read before a field
\* update.
C20_NoFieldAtZeroWidth ==
  [][/\ (pc = "dispatch" /\ IsFieldUpdate(input) /\ game.settings.field_width = 0) =>
          (pc' = "panicked" /\ game'.field = game.field)
     /\ (pc' # "panicked" /\ game'.field.cells # <<>>) =>
          \E i, j \in 1..Len(log') :
            i < j /\ IsPositiveWidth(log'[i]) /\ IsFieldUpdate(log'[j])]_vars

\* the first line is a field update: the process has aborted with the
\* default, empty Field
C20_Witness ==
  /\ pc = "panicked"
  /\ log = << Line(<<w_update, w_game, w_field, Join(<<c_dot, c_dot>>, ",")>>) >>
  /\ game.settings.field_width = 0
  /\ game.field = DefaultField

====
